---- MODULE Spec2Model ----
(***************************************************************************)
(* Model of the globalpower map view: the filter panel (FilterPanel.tsx),  *)
(* the filter evaluation of MapView, the cluster index it queries through  *)
(* useSupercluster, the marker and cluster clicks, and the hover tooltip   *)
(* timers of MapView.                                                      *)
(***************************************************************************)
EXTENDS Integers, Sequences, FiniteSets, TLC

VARIABLES
    powerPlants,      \* the static record collection (app/data/placeholder)
    filters,          \* MapView state: FilterState
    filteredPlants,   \* useMemo([filters]) of MapView
    points,           \* useMemo([filteredPlants]) of MapView
    indexPoints,      \* points loaded into superclusterRef.current, or Absent
    supercluster,     \* the `supercluster` value the last render returned
    rebuilt,          \* the last step constructed and loaded a new Supercluster
    viewState,        \* MapView state: longitude, latitude, zoom
    bounds,           \* MapView state: bounding box or Undefined
    tooltipPlantId,   \* MapView state: id of the plant whose popover is open
    hoverTimeoutRef,  \* ref: handle of the show timer
    closeTimeoutRef,  \* ref: handle of the hide timer
    isOverPopoverRef, \* ref: pointer is over the popover
    timers,           \* the host's live (scheduled, not fired, not cleared) timers
    mounted,          \* MapView is mounted
    selectedPlant,    \* MapView state: id of the selected plant
    staleReopen,      \* a show timer that predates an explicit close has opened a tooltip
    flyTo,            \* the options of the last mapRef.current.flyTo call, or NoFlyTo
    thrown,           \* a handler has thrown an error it does not catch
    clicked,          \* the arguments of the last handleClusterClick call (with the
                      \* parity of the number of calls), or NoClick
    pointer           \* what the pointer is over: "pin", "popover" or "map"

vars == <<powerPlants, filters, filteredPlants, points, indexPoints, supercluster,
          rebuilt, viewState, bounds, tooltipPlantId, hoverTimeoutRef,
          closeTimeoutRef, isOverPopoverRef, timers, mounted, selectedPlant,
          staleReopen, flyTo, thrown, clicked, pointer>>

filterVars == <<filters, filteredPlants, points, indexPoints, supercluster, rebuilt>>
viewVars == <<viewState, bounds>>
tooltipVars == <<tooltipPlantId, hoverTimeoutRef, closeTimeoutRef, isOverPopoverRef,
                 timers, staleReopen, pointer>>
clickVars == <<flyTo, thrown, clicked>>

-----------------------------------------------------------------------------
(* Bounds of the model *)

\* longest record collection
MaxPlants == 3
\* most timers the host holds at once
MaxTimers == 2

-----------------------------------------------------------------------------
(* Values *)

\* null as a plant id
Null == "null"
\* null as a timer handle (handles of scheduled timers are positive)
NoTimer == 0
\* undefined as a bounding box
Undefined == <<>>
\* undefined as superclusterRef.current
Absent == [built |-> FALSE]
\* a Supercluster instance loaded with pts
Index(pts) == [built |-> TRUE, points |-> pts]
\* no flyTo call so far
NoFlyTo == [issued |-> FALSE]
\* no handleClusterClick call so far
NoClick == [made |-> FALSE, odd |-> FALSE]

\* Math.min() / Math.max() of no arguments
Infinity == 1000000
NegInfinity == 0 - Infinity

\* FilterPanel.tsx: const plantTypes (the values, in declaration order)
plantTypes == <<"nuclear", "hydro", "wind", "solar", "gas", "coal", "oil">>
\* FilterPanel.tsx: const statuses
statuses == <<"operating", "maintenance", "offline">>

\* the country names of the data, in the order Array.prototype.sort gives them
CountryOrder == <<"France", "Germany", "Spain">>

\* records the collection is drawn from (PowerPlant of app/data/placeholder)
PlantPool ==
    << [id |-> "p1", type |-> "wind", status |-> "operating", capacity |-> 100,
       emissions |-> 0, constructionYear |-> 2000, country |-> "France",
       longitude |-> 4, latitude |-> 50],
      [id |-> "p2", type |-> "coal", status |-> "operating", capacity |-> 300,
       emissions |-> 10, constructionYear |-> 1990, country |-> "Germany",
       longitude |-> 12, latitude |-> 51],
      [id |-> "p3", type |-> "wind", status |-> "offline", capacity |-> 200,
       emissions |-> 0, constructionYear |-> 1990, country |-> "Germany",
       longitude |-> 12, latitude |-> 51],
      [id |-> "p4", type |-> "gas", status |-> "maintenance", capacity |-> 100,
       emissions |-> 10, constructionYear |-> 2000, country |-> "Spain",
       longitude |-> 8, latitude |-> 50] >>

PlantIds == { PlantPool[i].id : i \in DOMAIN PlantPool }

Range(s) == { s[i] : i \in DOMAIN s }

\* the pool records at the positions S, in pool order
PoolSelection(S) ==
    [i \in 1..Cardinality(S) |->
        PlantPool[CHOOSE k \in S : Cardinality({ j \in S : j < k }) = i - 1]]

\* the record collections: up to MaxPlants records of the pool
PlantCollections ==
    { PoolSelection(S) : S \in { T \in SUBSET DOMAIN PlantPool : Cardinality(T) <= MaxPlants } }

-----------------------------------------------------------------------------
(* Pure functions *)

\* Array.prototype.includes
Includes(arr, x) == \E i \in DOMAIN arr : arr[i] = x

\* Math.min(...xs)
RECURSIVE MinOf(_)
MinOf(xs) ==
    IF xs = <<>> THEN Infinity
    ELSE LET m == MinOf(Tail(xs)) IN IF Head(xs) < m THEN Head(xs) ELSE m

\* Math.max(...xs)
RECURSIVE MaxOf(_)
MaxOf(xs) ==
    IF xs = <<>> THEN NegInfinity
    ELSE LET m == MaxOf(Tail(xs)) IN IF Head(xs) > m THEN Head(xs) ELSE m

\* powerPlants.map((p) => p.capacity)
Capacities(plants) == [i \in DOMAIN plants |-> plants[i].capacity]
\* powerPlants.map((p) => p.emissions)
EmissionsOf(plants) == [i \in DOMAIN plants |-> plants[i].emissions]
\* powerPlants.map((p) => p.constructionYear)
Years(plants) == [i \in DOMAIN plants |-> plants[i].constructionYear]

\* getDataRanges with the emissions maximum taken by Math.min
getDataRanges_MinForMax(plants) ==
    [capacity |-> [min |-> MinOf(Capacities(plants)), max |-> MaxOf(Capacities(plants))],
     emissions |-> [min |-> MinOf(EmissionsOf(plants)), max |-> MinOf(EmissionsOf(plants))],
     year |-> [min |-> MinOf(Years(plants)), max |-> MaxOf(Years(plants))]]

getDataRanges(plants) ==
    [capacity |-> [min |-> MinOf(Capacities(plants)), max |-> MaxOf(Capacities(plants))],
     emissions |-> [min |-> MinOf(EmissionsOf(plants)), max |-> MaxOf(EmissionsOf(plants))],
     year |-> [min |-> MinOf(Years(plants)), max |-> MaxOf(Years(plants))]]

\* new Set(powerPlants.map(p => p.country)), Array.from(...).sort()
getUniqueCountries(plants) ==
    SelectSeq(CountryOrder, LAMBDA c : \E i \in DOMAIN plants : plants[i].country = c)

getDefaultFilters(plants) ==
    LET ranges == getDataRanges(plants) IN
    [plantTypes |-> plantTypes,
     statuses |-> statuses,
     capacityRange |-> <<ranges.capacity.min, ranges.capacity.max>>,
     emissionsRange |-> <<ranges.emissions.min, ranges.emissions.max>>,
     yearRange |-> <<ranges.year.min, ranges.year.max>>,
     countries |-> <<>>]

\* the predicate with the lower capacity bound exclusive
PlantPasses_ExclusiveBound(plant, f) ==
    IF ~Includes(f.plantTypes, plant.type) THEN FALSE
    ELSE IF ~Includes(f.statuses, plant.status) THEN FALSE
    ELSE IF plant.capacity <= f.capacityRange[1] \/ plant.capacity > f.capacityRange[2]
        THEN FALSE
    ELSE IF plant.emissions < f.emissionsRange[1] \/ plant.emissions > f.emissionsRange[2]
        THEN FALSE
    ELSE IF plant.constructionYear < f.yearRange[1] \/ plant.constructionYear > f.yearRange[2]
        THEN FALSE
    ELSE IF Len(f.countries) > 0 /\ ~Includes(f.countries, plant.country) THEN FALSE
    ELSE TRUE

\* the predicate with the plant-type test skipped for an empty plantTypes
PlantPasses_EmptyTypesPass(plant, f) ==
    IF Len(f.plantTypes) > 0 /\ ~Includes(f.plantTypes, plant.type) THEN FALSE
    ELSE IF ~Includes(f.statuses, plant.status) THEN FALSE
    ELSE IF plant.capacity < f.capacityRange[1] \/ plant.capacity > f.capacityRange[2]
        THEN FALSE
    ELSE IF plant.emissions < f.emissionsRange[1] \/ plant.emissions > f.emissionsRange[2]
        THEN FALSE
    ELSE IF plant.constructionYear < f.yearRange[1] \/ plant.constructionYear > f.yearRange[2]
        THEN FALSE
    ELSE IF Len(f.countries) > 0 /\ ~Includes(f.countries, plant.country) THEN FALSE
    ELSE TRUE

\* the predicate with the country test also for an empty selection
PlantPasses_EmptyCountriesReject(plant, f) ==
    IF ~Includes(f.plantTypes, plant.type) THEN FALSE
    ELSE IF ~Includes(f.statuses, plant.status) THEN FALSE
    ELSE IF plant.capacity < f.capacityRange[1] \/ plant.capacity > f.capacityRange[2]
        THEN FALSE
    ELSE IF plant.emissions < f.emissionsRange[1] \/ plant.emissions > f.emissionsRange[2]
        THEN FALSE
    ELSE IF plant.constructionYear < f.yearRange[1] \/ plant.constructionYear > f.yearRange[2]
        THEN FALSE
    ELSE IF ~Includes(f.countries, plant.country) THEN FALSE
    ELSE TRUE

\* the callback of powerPlants.filter in filteredPlants
PlantPasses(plant, f) ==
    IF ~Includes(f.plantTypes, plant.type) THEN FALSE
    ELSE IF ~Includes(f.statuses, plant.status) THEN FALSE
    ELSE IF plant.capacity < f.capacityRange[1] \/ plant.capacity > f.capacityRange[2]
        THEN FALSE
    ELSE IF plant.emissions < f.emissionsRange[1] \/ plant.emissions > f.emissionsRange[2]
        THEN FALSE
    ELSE IF plant.constructionYear < f.yearRange[1] \/ plant.constructionYear > f.yearRange[2]
        THEN FALSE
    ELSE IF Len(f.countries) > 0 /\ ~Includes(f.countries, plant.country) THEN FALSE
    ELSE TRUE

\* a filter that collects the passing records in reverse order
RECURSIVE FilterPlants_Reversed(_, _)
FilterPlants_Reversed(plants, f) ==
    IF plants = <<>> THEN <<>>
    ELSE IF PlantPasses(Head(plants), f)
        THEN FilterPlants_Reversed(Tail(plants), f) \o <<Head(plants)>>
        ELSE FilterPlants_Reversed(Tail(plants), f)

\* powerPlants.filter(...): the passing records, in input order
RECURSIVE FilterPlants(_, _)
FilterPlants(plants, f) ==
    IF plants = <<>> THEN <<>>
    ELSE IF PlantPasses(Head(plants), f)
        THEN <<Head(plants)>> \o FilterPlants(Tail(plants), f)
        ELSE FilterPlants(Tail(plants), f)

\* the callback of filteredPlants.map in points
PointOf(plant) ==
    [cluster |-> FALSE, plantId |-> plant.id, plant |-> plant,
     coordinates |-> <<plant.longitude, plant.latitude>>]

PointsOf(plants) == [i \in DOMAIN plants |-> PointOf(plants[i])]

\* the plant count indicator: filteredPlants.length
plantCount == Len(filteredPlants)

\* options literal of the useSupercluster call
ClusterOptions == [radius |-> 60, maxZoom |-> 14]

\* a reload on every run of the effect (no comparison with the loaded points)
NeedsReload_Always(index, pts) == TRUE

\* a reload only when the number of points differs
NeedsReload_LengthOnly(index, pts) == index = Absent \/ Len(index.points) # Len(pts)

\* useSupercluster's effect: a new index is built and loaded when there is no
\* index yet or the points differ (deep comparison) from the loaded ones
NeedsReload(index, pts) == index = Absent \/ index.points # pts

\* map.getBounds().toArray().flat(): [west, south, east, north] of the view
getBounds(vs) ==
    LET half == IF vs.zoom <= 3 THEN 40 ELSE 20 IN
    <<vs.longitude - half, vs.latitude - half, vs.longitude + half, vs.latitude + half>>

-----------------------------------------------------------------------------
(* The cluster index behind useSupercluster (the supercluster library called *)
(* with ClusterOptions).  Projected positions are whole numbers of a unit    *)
(* that is the clustering radius at maxZoom: radius / (extent * 2^maxZoom)   *)
(* of the world's width.                                                     *)

\* the library's defaults for the options the call leaves out
DefaultOptions == [minZoom |-> 0, minPoints |-> 2, extent |-> 512]

\* the world's width in units
WorldSize == (DefaultOptions.extent * 2^ClusterOptions.maxZoom) \div ClusterOptions.radius + 1

\* r of _cluster and getChildren: radius / (extent * 2^zoom) of the world
Radius(zoom) ==
    (ClusterOptions.radius * WorldSize) \div (DefaultOptions.extent * 2^zoom)

\* lngX: longitude to the projected x
lngX(lng) == ((lng + 180) * WorldSize) \div 360

\* the spherical mercator y of the latitudes -90 .. 90, in units
MercatorY ==
    << 139811, 139811, 139811, 139811, 139811, 139582, 135518, 132081, 129101, 126471,
       124115, 121983, 120033, 118238, 116574, 115022, 113568, 112201, 110909, 109684,
       108521, 107412, 106352, 105337, 104363, 103426, 102524, 101653, 100812, 99998,
       99209, 98444, 97701, 96978, 96274, 95589, 94920, 94267, 93629, 93005,
       92394, 91796, 91210, 90635, 90071, 89517, 88972, 88437, 87910, 87392,
       86881, 86378, 85881, 85392, 84909, 84432, 83960, 83495, 83034, 82579,
       82128, 81682, 81240, 80802, 80368, 79938, 79511, 79087, 78667, 78250,
       77835, 77423, 77013, 76606, 76201, 75798, 75397, 74998, 74600, 74203,
       73809, 73415, 73022, 72630, 72239, 71849, 71460, 71071, 70682, 70293,
       69905, 69517, 69128, 68739, 68350, 67961, 67571, 67180, 66788, 66395,
       66001, 65607, 65210, 64812, 64413, 64012, 63609, 63204, 62797, 62387,
       61975, 61560, 61143, 60723, 60299, 59872, 59442, 59008, 58570, 58128,
       57682, 57231, 56776, 56315, 55850, 55378, 54901, 54418, 53929, 53432,
       52929, 52418, 51900, 51373, 50838, 50293, 49739, 49175, 48600, 48014,
       47416, 46805, 46181, 45543, 44890, 44221, 43536, 42832, 42109, 41366,
       40601, 39812, 38998, 38157, 37286, 36384, 35447, 34473, 33458, 32398,
       31289, 30126, 28901, 27609, 26242, 24788, 23236, 21572, 19777, 17827,
       15695, 13339, 10709, 7729, 4292, 228, 0, 0, 0, 0,
       0 >>

\* latY: latitude to the projected y (0 at the north edge, clamped to the world)
latY(lat) == MercatorY[lat + 91]

\* xLng: projected x back to a longitude (to the nearest degree)
xLng(x) == (x * 360 + WorldSize \div 2) \div WorldSize - 180

\* yLat: projected y back to a latitude (to the nearest degree)
yLat(y) ==
    LET south == CHOOSE lat \in -90..90 :
                    /\ latY(lat) >= y
                    /\ lat = 90 \/ latY(lat + 1) < y
        north == IF south = 90 THEN 90 ELSE south + 1
    IN IF latY(south) - y <= y - latY(north) THEN south ELSE north

\* the entry of an input point in the tree of zoom maxZoom + 1
LeafNode(pts, i) ==
    [x |-> lngX(pts[i].coordinates[1]), y |-> latY(pts[i].coordinates[2]),
     id |-> i - 1, numPoints |-> 1, members |-> {i - 1}, parentId |-> -1]

\* KDBush within: the squared distance is at most r squared
Within(a, b, r) ==
    LET dx == a.x - b.x
        dy == a.y - b.y
    IN /\ -r <= dx /\ dx <= r
       /\ -r <= dy /\ dy <= r
       /\ dx * dx + dy * dy <= r * r

\* the point count and the weighted coordinate sums of the nodes ks of a tree
RECURSIVE SumNodes(_, _)
SumNodes(tree, ks) ==
    IF ks = {} THEN [numPoints |-> 0, wx |-> 0, wy |-> 0]
    ELSE LET k == CHOOSE j \in ks : TRUE
             rest == SumNodes(tree, ks \ {k})
         IN [numPoints |-> rest.numPoints + tree[k].numPoints,
             wx |-> rest.wx + tree[k].x * tree[k].numPoints,
             wy |-> rest.wy + tree[k].y * tree[k].numPoints]

\* the id of the cluster that originates at data index i when zoom is built
ClusterId(i, zoom, n) == i * 32 + (zoom + 1) + n

\* a scan that leaves the absorbed neighbours unvisited, so that each is
\* processed again at the same zoom
RECURSIVE ClusterScan_KeepNeighbours(_, _, _, _, _, _)
ClusterScan_KeepNeighbours(tree, zoom, n, i, visited, next) ==
    IF i > Len(tree) THEN [tree |-> tree, next |-> next]
    ELSE IF i \in visited
        THEN ClusterScan_KeepNeighbours(tree, zoom, n, i + 1, visited, next)
    ELSE
        LET neighborIds ==
                { k \in DOMAIN tree \ (visited \cup {i}) :
                    Within(tree[i], tree[k], Radius(zoom)) }
            merged == neighborIds \cup {i}
            sum == SumNodes(tree, merged)
            id == ClusterId(i - 1, zoom, n)
        IN IF neighborIds # {} /\ sum.numPoints >= DefaultOptions.minPoints
           THEN ClusterScan_KeepNeighbours(
                    [k \in DOMAIN tree |->
                        IF k \in merged THEN [tree[k] EXCEPT !.parentId = id]
                        ELSE tree[k]],
                    zoom, n, i + 1, visited \cup {i},
                    Append(next,
                        [x |-> sum.wx \div sum.numPoints,
                         y |-> sum.wy \div sum.numPoints,
                         id |-> id, numPoints |-> sum.numPoints,
                         members |-> UNION { tree[k].members : k \in merged },
                         parentId |-> -1]))
           ELSE ClusterScan_KeepNeighbours(tree, zoom, n, i + 1, visited \cup {i},
                                           Append(next, tree[i]))

\* _cluster(tree, zoom), from data index i - 1 on: the nodes `visited` have been
\* processed at this zoom, `next` is nextData; n is the number of input points.
\* Every unvisited node absorbs its unvisited neighbours within the radius.
RECURSIVE ClusterScan(_, _, _, _, _, _)
ClusterScan(tree, zoom, n, i, visited, next) ==
    IF i > Len(tree) THEN [tree |-> tree, next |-> next]
    ELSE IF i \in visited THEN ClusterScan(tree, zoom, n, i + 1, visited, next)
    ELSE
        LET neighborIds ==
                { k \in DOMAIN tree \ (visited \cup {i}) :
                    Within(tree[i], tree[k], Radius(zoom)) }
            merged == neighborIds \cup {i}
            sum == SumNodes(tree, merged)
            id == ClusterId(i - 1, zoom, n)
        IN IF neighborIds # {} /\ sum.numPoints >= DefaultOptions.minPoints
           THEN ClusterScan(
                    [k \in DOMAIN tree |->
                        IF k \in merged THEN [tree[k] EXCEPT !.parentId = id]
                        ELSE tree[k]],
                    zoom, n, i + 1, visited \cup merged,
                    Append(next,
                        [x |-> sum.wx \div sum.numPoints,
                         y |-> sum.wy \div sum.numPoints,
                         id |-> id, numPoints |-> sum.numPoints,
                         members |-> UNION { tree[k].members : k \in merged },
                         parentId |-> -1]))
           ELSE ClusterScan(tree, zoom, n, i + 1, visited \cup {i},
                            Append(next, tree[i]))

\* the loop of load: the points are clustered at maxZoom, the result at the
\* zoom below, and so on down to minZoom
RECURSIVE ClusterLevels(_, _, _)
ClusterLevels(trees, zoom, n) ==
    IF zoom < DefaultOptions.minZoom THEN trees
    ELSE LET pass == ClusterScan(trees[zoom + 1], zoom, n, 1, {}, <<>>)
         IN ClusterLevels([trees EXCEPT ![zoom + 1] = pass.tree, ![zoom] = pass.next],
                          zoom - 1, n)

\* load(points): the trees of the zooms minZoom .. maxZoom + 1
load(pts) ==
    ClusterLevels(
        [z \in DefaultOptions.minZoom..(ClusterOptions.maxZoom + 1) |->
            IF z = ClusterOptions.maxZoom + 1
                THEN [i \in DOMAIN pts |-> LeafNode(pts, i)]
                ELSE <<>>],
        ClusterOptions.maxZoom, Len(pts))

\* the smaller of two numbers (Math.min)
Min(a, b) == IF a <= b THEN a ELSE b

\* a zoom limit that answers a fine zoom with the coarsest tree and a coarse
\* zoom with the finest
limitZoom_Inverted(z) ==
    IF z < DefaultOptions.minZoom THEN ClusterOptions.maxZoom + 1
    ELSE ClusterOptions.maxZoom + 1 - Min(z, ClusterOptions.maxZoom + 1)

\* _limitZoom: the zoom whose tree answers a query at zoom z
limitZoom(z) ==
    IF z < DefaultOptions.minZoom THEN DefaultOptions.minZoom
    ELSE Min(z, ClusterOptions.maxZoom + 1)

\* getClusterJSON: the feature of an aggregate node
ClusterJSON(node) ==
    [cluster |-> TRUE, id |-> node.id, point_count |-> node.numPoints,
     coordinates |-> <<xLng(node.x), yLat(node.y)>>]

\* the features of the nodes of a tree inside a projected box, in data order:
\* the input point of a single point, the cluster feature of an aggregate
RECURSIVE RangeFeatures(_, _, _, _, _, _)
RangeFeatures(tree, pts, minX, minY, maxX, maxY) ==
    IF tree = <<>> THEN <<>>
    ELSE LET node == Head(tree)
             rest == RangeFeatures(Tail(tree), pts, minX, minY, maxX, maxY)
         IN IF node.x >= minX /\ node.x <= maxX /\ node.y >= minY /\ node.y <= maxY
            THEN <<IF node.numPoints > 1 THEN ClusterJSON(node) ELSE pts[node.id + 1]>>
                 \o rest
            ELSE rest

\* a longitude wrapped into -180 .. 180
WrapLng(lng) == ((lng + 180) % 360) - 180

\* a latitude clamped to -90 .. 90
ClampLat(lat) == IF lat < -90 THEN -90 ELSE IF lat > 90 THEN 90 ELSE lat

\* a query that always answers in two halves, east of the box's west edge and
\* west of its east edge
getClusters_BothHalves(index, bbox, zoom) ==
    LET tree == load(index.points)[limitZoom(zoom)]
        minLat == ClampLat(bbox[2])
        maxLat == ClampLat(bbox[4])
    IN RangeFeatures(tree, index.points, lngX(WrapLng(bbox[1])), latY(maxLat),
                     lngX(180), latY(minLat))
       \o RangeFeatures(tree, index.points, lngX(-180), latY(maxLat),
                        lngX(WrapLng(bbox[3])), latY(minLat))

\* getClusters(bbox, zoom) of an index: the nodes of the zoom's tree inside
\* the box; a box that crosses the antimeridian is queried in two halves
getClusters(index, bbox, zoom) ==
    LET tree == load(index.points)[limitZoom(zoom)]
        minLat == ClampLat(bbox[2])
        maxLat == ClampLat(bbox[4])
        whole == bbox[3] - bbox[1] >= 360
        minLng == IF whole THEN -180 ELSE WrapLng(bbox[1])
        maxLng == IF whole \/ bbox[3] = 180 THEN 180 ELSE WrapLng(bbox[3])
    IN IF minLng > maxLng
       THEN RangeFeatures(tree, index.points, lngX(minLng), latY(maxLat),
                          lngX(180), latY(minLat))
            \o RangeFeatures(tree, index.points, lngX(-180), latY(maxLat),
                             lngX(maxLng), latY(minLat))
       ELSE RangeFeatures(tree, index.points, lngX(minLng), latY(maxLat),
                          lngX(maxLng), latY(minLat))

\* Math.floor of a zoom given in tenths of a level
zoomInt_Floor(tenths) == tenths \div 10

\* zoomInt of useSupercluster: Math.round of a zoom given in tenths of a level
zoomInt(tenths) == (tenths + 5) \div 10

\* the `clusters` state of useSupercluster: empty until bounds are known, then
\* the answer of the index to the last query (viewState.zoom is a whole level)
clusters ==
    IF bounds = Undefined THEN <<>>
    ELSE getClusters(indexPoints, bounds, zoomInt(10 * viewState.zoom))

\* getChildren(clusterId) on the trees of n points: the nodes of the cluster's
\* origin zoom whose parent it is; ok is FALSE where the library throws
\* 'No cluster with the specified id.'
getChildren(trees, n, clusterId) ==
    LET originId == (clusterId - n) \div 32
        originZoom == (clusterId - n) % 32
    IN IF clusterId < n \/ originZoom \notin DOMAIN trees
          \/ originId >= Len(trees[originZoom])
       THEN [ok |-> FALSE, children |-> <<>>]
       ELSE LET tree == trees[originZoom]
                children ==
                    SelectSeq(tree, LAMBDA node :
                        /\ Within(tree[originId + 1], node, Radius(originZoom - 1))
                        /\ node.parentId = clusterId)
            IN [ok |-> children # <<>>, children |-> children]

\* the loop of getClusterExpansionZoom(clusterId): the children are followed
\* while a cluster has exactly one child
RECURSIVE ExpansionLoop(_, _, _, _)
ExpansionLoop(trees, n, clusterId, expansionZoom) ==
    IF expansionZoom > ClusterOptions.maxZoom THEN [ok |-> TRUE, zoom |-> expansionZoom]
    ELSE LET found == getChildren(trees, n, clusterId)
         IN IF ~found.ok THEN [ok |-> FALSE, zoom |-> expansionZoom]
            ELSE IF Len(found.children) # 1
                THEN [ok |-> TRUE, zoom |-> expansionZoom + 1]
            ELSE ExpansionLoop(trees, n,
                     IF found.children[1].numPoints > 1 THEN found.children[1].id ELSE -1,
                     expansionZoom + 1)

\* getClusterExpansionZoom(clusterId) of an index: the zoom at which the
\* cluster splits into its children; ok is FALSE where the library throws
getClusterExpansionZoom(index, clusterId) ==
    LET n == Len(index.points) IN
    ExpansionLoop(load(index.points), n, clusterId, ((clusterId - n) % 32) - 1)

-----------------------------------------------------------------------------
(* Inputs of the handlers *)

\* arrays the plant-type CheckboxGroup reports
TypeInputs == { plantTypes, <<>>, <<"wind">>, <<"coal", "wind">> }
\* arrays the status CheckboxGroup reports
StatusInputs == { statuses, <<>>, <<"operating">> }
\* values the range handlers are called with
CapacityInputs == { <<100, 300>>, <<200, 300>>, <<200, 200>>, <<300, 100>>, <<0, 400>> }
EmissionsInputs == { <<0, 10>>, <<0, 0>> }
YearInputs == { <<1990, 2000>>, <<2000, 2000>> }
\* single numbers a slider with one thumb reports
ScalarInputs == { <<200>>, <<5>>, <<1995>> }
\* key sets the country Select reports (in insertion order), or "all"
CountryInputs == { [all |-> TRUE, keys |-> <<>>] } \cup
    { [all |-> FALSE, keys |-> k] : k \in { <<>>, <<"Germany">>, <<"Spain", "France">> } }
\* view states the map reports
ViewInputs == { [longitude |-> 10, latitude |-> 45, zoom |-> 3],
                [longitude |-> 10, latitude |-> 45, zoom |-> 4] }
\* the size without the cap of Math.min
ClusterSize_Unclamped(pointCount, n) ==
    IF n = 0 THEN Infinity ELSE 24 + (pointCount * 40) \div n

\* the size of a cluster marker, Math.min(24 + (pointCount / points.length) * 40, 48),
\* to the whole pixel below; a division by points.length = 0 gives Infinity
ClusterSize(pointCount, n) ==
    IF n = 0 THEN Min(Infinity, 48) ELSE Min(24 + (pointCount * 40) \div n, 48)

\* the cluster-marker sizes clusters.map computes in a render with the render
\* list cs and n points
RenderSizes(cs, n) ==
    { ClusterSize(cs[i].point_count, n) : i \in { k \in DOMAIN cs : cs[k].cluster } }

\* a step's render before useSupercluster's effect has run: the memos are
\* recomputed, the hook still returns the render list of the last query
StaleRenderSizes == RenderSizes(clusters, Len(points'))

\* the `clusters` state after a step: the answer of the index to the step's query
clustersAfter ==
    IF bounds' = Undefined THEN <<>>
    ELSE getClusters(indexPoints', bounds', zoomInt(10 * viewState'.zoom))

\* a step's render after the effect has set the new render list
FreshRenderSizes == RenderSizes(clustersAfter, Len(points'))

\* a render of the step maps a cluster marker while points.length is 0
SizeOverNoPoints ==
    /\ points' = <<>>
    /\ \/ \E i \in DOMAIN clusters : clusters[i].cluster
       \/ \E i \in DOMAIN clustersAfter : clustersAfter[i].cluster

\* the aggregate features of every zoom of an index
AggregatesOf(index) ==
    LET trees == load(index.points) IN
    { ClusterJSON(node) :
        node \in { n \in UNION { Range(trees[z]) : z \in DOMAIN trees } : n.numPoints > 1 } }
\* cluster markers a click can come from: those of the loaded index, those of
\* the index of the whole collection (the index before any filter edit) and
\* those of the index the handlers of the last render hold
ClusterMarkers ==
    AggregatesOf(indexPoints) \cup AggregatesOf(Index(PointsOf(powerPlants)))
    \cup (IF supercluster = Absent THEN {} ELSE AggregatesOf(supercluster))

-----------------------------------------------------------------------------
(* Initial state: MapView after mount (first render and its effects) *)

Init ==
    /\ powerPlants \in PlantCollections
    /\ filters = getDefaultFilters(powerPlants)
    /\ filteredPlants = FilterPlants(powerPlants, filters)
    /\ points = PointsOf(filteredPlants)
    /\ indexPoints = Index(points)
    /\ supercluster = Absent
    /\ rebuilt = TRUE
    /\ viewState = [longitude |-> 10, latitude |-> 45, zoom |-> 3]
    /\ bounds = Undefined
    /\ tooltipPlantId = Null
    /\ hoverTimeoutRef = NoTimer
    /\ closeTimeoutRef = NoTimer
    /\ isOverPopoverRef = FALSE
    /\ timers = {}
    /\ mounted = TRUE
    /\ selectedPlant = Null
    /\ staleReopen = FALSE
    /\ flyTo = NoFlyTo
    /\ thrown = FALSE
    /\ clicked = NoClick
    /\ pointer = "map"

-----------------------------------------------------------------------------
(* Rendering *)

\* an evaluation that reads countries from the value before the edit and the
\* other fields from the value after it
setFilters_StaleCountries(f) ==
    /\ filters' = f
    /\ filteredPlants' = FilterPlants(powerPlants, [f EXCEPT !.countries = filters.countries])
    /\ points' = PointsOf(filteredPlants')
    /\ rebuilt' = NeedsReload(indexPoints, points')
    /\ indexPoints' = IF rebuilt' THEN Index(points') ELSE indexPoints
    /\ supercluster' = IF bounds # Undefined THEN indexPoints' ELSE indexPoints

\* setFilters(f) and the render it causes: the filteredPlants and points memos
\* recompute, useSupercluster's effect reloads the index if the points differ,
\* and, when bounds are known, setClusters causes the render that returns the
\* current index as `supercluster`
setFilters(f) ==
    /\ filters' = f
    /\ filteredPlants' = FilterPlants(powerPlants, f)
    /\ points' = PointsOf(filteredPlants')
    /\ rebuilt' = NeedsReload(indexPoints, points')
    /\ indexPoints' = IF rebuilt' THEN Index(points') ELSE indexPoints
    /\ supercluster' = IF bounds # Undefined THEN indexPoints' ELSE indexPoints

\* a render caused by a viewport state change: the memos keep their values
\* (their dependencies are unchanged) and the effect only re-queries
setView(vs, b) ==
    /\ viewState' = vs
    /\ bounds' = b
    /\ rebuilt' = NeedsReload(indexPoints, points)
    /\ indexPoints' = IF rebuilt' THEN Index(points) ELSE indexPoints
    /\ supercluster' = indexPoints'
    /\ UNCHANGED <<filters, filteredPlants, points>>

-----------------------------------------------------------------------------
(* FilterPanel handlers *)

\* Array.isArray of a slider value: a range is a pair, a single number n is
\* written <<n>>
ArrayIsArray(value) == Len(value) = 2

handleTypeChange(values) ==
    /\ mounted
    /\ setFilters([filters EXCEPT !.plantTypes = values])
    /\ UNCHANGED <<powerPlants, viewVars, tooltipVars, mounted, selectedPlant, clickVars>>

handleStatusChange(values) ==
    /\ mounted
    /\ setFilters([filters EXCEPT !.statuses = values])
    /\ UNCHANGED <<powerPlants, viewVars, tooltipVars, mounted, selectedPlant, clickVars>>

\* the capacity handler without the Array.isArray test
handleCapacityChange_NoArrayTest(value) ==
    /\ mounted
    /\ setFilters([filters EXCEPT !.capacityRange = <<value[1], value[Len(value)]>>])
    /\ UNCHANGED <<powerPlants, viewVars, tooltipVars, mounted, selectedPlant, clickVars>>

handleCapacityChange(value) ==
    /\ mounted
    /\ IF ArrayIsArray(value)
         THEN setFilters([filters EXCEPT !.capacityRange = <<value[1], value[2]>>])
         ELSE UNCHANGED filterVars
    /\ UNCHANGED <<powerPlants, viewVars, tooltipVars, mounted, selectedPlant, clickVars>>

handleEmissionsChange(value) ==
    /\ mounted
    /\ IF ArrayIsArray(value)
         THEN setFilters([filters EXCEPT !.emissionsRange = <<value[1], value[2]>>])
         ELSE UNCHANGED filterVars
    /\ UNCHANGED <<powerPlants, viewVars, tooltipVars, mounted, selectedPlant, clickVars>>

handleYearChange(value) ==
    /\ mounted
    /\ IF ArrayIsArray(value)
         THEN setFilters([filters EXCEPT !.yearRange = <<value[1], value[2]>>])
         ELSE UNCHANGED filterVars
    /\ UNCHANGED <<powerPlants, viewVars, tooltipVars, mounted, selectedPlant, clickVars>>

handleCountryChange(keys) ==
    /\ mounted
    /\ IF keys.all
         THEN setFilters([filters EXCEPT !.countries = getUniqueCountries(powerPlants)])
         ELSE setFilters([filters EXCEPT !.countries = keys.keys])
    /\ UNCHANGED <<powerPlants, viewVars, tooltipVars, mounted, selectedPlant, clickVars>>

\* FilterPanel's activeFilterCount for the filter state f (ranges is the
\* getDataRanges memo)
activeFilterCount(f) ==
    LET ranges == getDataRanges(powerPlants)
        One(condition) == IF condition THEN 1 ELSE 0
    IN One(Len(f.plantTypes) < 7)
       + One(Len(f.statuses) < 3)
       + One(f.capacityRange[1] > ranges.capacity.min \/ f.capacityRange[2] < ranges.capacity.max)
       + One(f.emissionsRange[1] > ranges.emissions.min \/ f.emissionsRange[2] < ranges.emissions.max)
       + One(f.yearRange[1] > ranges.year.min \/ f.yearRange[2] < ranges.year.max)
       + One(Len(f.countries) > 0)

\* a reset that keeps the country selection
resetFilters_KeepCountries ==
    /\ mounted
    /\ setFilters([getDefaultFilters(powerPlants) EXCEPT !.countries = filters.countries])
    /\ UNCHANGED <<powerPlants, viewVars, tooltipVars, mounted, selectedPlant, clickVars>>

resetFilters ==
    /\ mounted
    /\ setFilters(getDefaultFilters(powerPlants))
    /\ UNCHANGED <<powerPlants, viewVars, tooltipVars, mounted, selectedPlant, clickVars>>

-----------------------------------------------------------------------------
(* Map callbacks *)

\* Map onMove: setViewState(evt.viewState); updateBounds()
onMove(vs) ==
    /\ mounted
    /\ setView(vs, getBounds(vs))
    /\ UNCHANGED <<powerPlants, tooltipVars, mounted, selectedPlant, clickVars>>

\* Map onLoad: updateBounds()
onLoad ==
    /\ mounted
    /\ bounds = Undefined
    /\ setView(viewState, getBounds(viewState))
    /\ UNCHANGED <<powerPlants, tooltipVars, mounted, selectedPlant, clickVars>>

-----------------------------------------------------------------------------
(* Marker clicks *)

\* a flyTo centred on (latitude, longitude)
MarkerFlyTo_Swapped(plant) ==
    [center |-> <<plant.latitude, plant.longitude>>, zoom |-> 6, duration |-> 1000]

\* the options handleMarkerClick passes to flyTo
MarkerFlyTo(plant) ==
    [center |-> <<plant.longitude, plant.latitude>>, zoom |-> 6, duration |-> 1000]

\* handleMarkerClick(plant): setSelectedPlant(plant); flyTo
handleMarkerClick(plant) ==
    /\ mounted
    /\ selectedPlant' = plant.id
    /\ flyTo' = MarkerFlyTo(plant)
    /\ UNCHANGED <<powerPlants, filterVars, viewVars, tooltipVars, mounted, thrown, clicked>>

\* a target zoom without the cap
ClusterFlyTo_Uncapped(expansionZoom, longitude, latitude) ==
    [center |-> <<longitude, latitude>>, zoom |-> expansionZoom, duration |-> 500]

\* the options handleClusterClick passes to flyTo
ClusterFlyTo(expansionZoom, longitude, latitude) ==
    [center |-> <<longitude, latitude>>, zoom |-> Min(expansionZoom, 14), duration |-> 500]

\* a handler that asks the index for the expansion zoom without looking whether
\* there is one
handleClusterClick_NoGuard(clusterId, longitude, latitude) ==
    /\ mounted
    /\ clicked' = [made |-> TRUE, odd |-> ~clicked.odd, clusterId |-> clusterId,
                   longitude |-> longitude, latitude |-> latitude]
    /\ IF supercluster = Absent THEN thrown' = TRUE /\ flyTo' = flyTo
       ELSE LET expansion == getClusterExpansionZoom(supercluster, clusterId) IN
            IF ~expansion.ok
            THEN thrown' = TRUE /\ flyTo' = flyTo
            ELSE /\ flyTo' = ClusterFlyTo(expansion.zoom, longitude, latitude)
                 /\ thrown' = thrown
    /\ UNCHANGED <<powerPlants, filterVars, viewVars, tooltipVars, mounted, selectedPlant>>

\* handleClusterClick(clusterId, longitude, latitude): nothing without an
\* index; the error of getClusterExpansionZoom is not caught
handleClusterClick(clusterId, longitude, latitude) ==
    /\ mounted
    /\ clicked' = [made |-> TRUE, odd |-> ~clicked.odd, clusterId |-> clusterId,
                   longitude |-> longitude, latitude |-> latitude]
    /\ IF supercluster = Absent THEN UNCHANGED <<flyTo, thrown>>
       ELSE LET expansion == getClusterExpansionZoom(supercluster, clusterId) IN
            IF ~expansion.ok
            THEN thrown' = TRUE /\ flyTo' = flyTo
            ELSE /\ flyTo' = ClusterFlyTo(expansion.zoom, longitude, latitude)
                 /\ thrown' = thrown
    /\ UNCHANGED <<powerPlants, filterVars, viewVars, tooltipVars, mounted, selectedPlant>>

-----------------------------------------------------------------------------
(* Hover tooltip *)

\* clearTimeout(h): the timer with handle h, if live, is cancelled
clearTimeout(ts, h) == { t \in ts : t.id # h }

\* the handle setTimeout returns: one no live timer and no ref holds
NewHandle(ts) ==
    CHOOSE h \in 1..(MaxTimers + 3) :
        /\ h \notin { t.id : t \in ts } \cup { hoverTimeoutRef, closeTimeoutRef }
        /\ \A g \in 1..(h - 1) :
             g \in { t.id : t \in ts } \cup { hoverTimeoutRef, closeTimeoutRef }

\* setTimeout(callback, delay): kind "show" is the callback of
\* handlePinMouseEnter, kind "hide" the callback of handlePinMouseLeave
setTimeout(ts, kind, plantId) ==
    ts \cup { [id |-> NewHandle(ts), kind |-> kind, plantId |-> plantId,
               preClose |-> FALSE] }

\* the plant has a leaf marker on the map
PinRendered(plantId) ==
    /\ bounds # Undefined
    /\ \E i \in DOMAIN filteredPlants : filteredPlants[i].id = plantId

\* the popover of the tooltip plant is shown
PopoverOpen == tooltipPlantId # Null /\ PinRendered(tooltipPlantId)

handlePinMouseEnter(plantId) ==
    /\ mounted
    /\ PinRendered(plantId)
    /\ LET cleared == clearTimeout(clearTimeout(timers, closeTimeoutRef), hoverTimeoutRef) IN
         /\ Cardinality(cleared) < MaxTimers
         /\ timers' = setTimeout(cleared, "show", plantId)
         /\ hoverTimeoutRef' = NewHandle(cleared)
    /\ closeTimeoutRef' = NoTimer
    /\ pointer' = "pin"
    /\ UNCHANGED <<powerPlants, filterVars, viewVars, tooltipPlantId, isOverPopoverRef,
                   mounted, selectedPlant, staleReopen,
                   clickVars>>

\* a pin-leave that schedules the hide timer and lets the show timer run
handlePinMouseLeave_KeepsShowTimer ==
    /\ mounted
    /\ bounds # Undefined
    /\ Cardinality(timers) < MaxTimers
    /\ timers' = setTimeout(timers, "hide", Null)
    /\ closeTimeoutRef' = NewHandle(timers)
    /\ hoverTimeoutRef' = NoTimer
    /\ pointer' = "map"
    /\ UNCHANGED <<powerPlants, filterVars, viewVars, tooltipPlantId, isOverPopoverRef,
                   mounted, selectedPlant, staleReopen,
                   clickVars>>

handlePinMouseLeave ==
    /\ mounted
    /\ bounds # Undefined
    /\ LET cleared == clearTimeout(timers, hoverTimeoutRef) IN
         /\ Cardinality(cleared) < MaxTimers
         /\ timers' = setTimeout(cleared, "hide", Null)
         /\ closeTimeoutRef' = NewHandle(cleared)
    /\ hoverTimeoutRef' = NoTimer
    /\ pointer' = "map"
    /\ UNCHANGED <<powerPlants, filterVars, viewVars, tooltipPlantId, isOverPopoverRef,
                   mounted, selectedPlant, staleReopen,
                   clickVars>>

handlePopoverMouseEnter ==
    /\ mounted
    /\ PopoverOpen
    /\ isOverPopoverRef' = TRUE
    /\ timers' = clearTimeout(timers, closeTimeoutRef)
    /\ closeTimeoutRef' = NoTimer
    /\ pointer' = "popover"
    /\ UNCHANGED <<powerPlants, filterVars, viewVars, tooltipPlantId, hoverTimeoutRef,
                   mounted, selectedPlant, staleReopen,
                   clickVars>>

handlePopoverMouseLeave ==
    /\ mounted
    /\ PopoverOpen
    /\ isOverPopoverRef' = FALSE
    /\ tooltipPlantId' = Null
    /\ pointer' = "map"
    /\ UNCHANGED <<powerPlants, filterVars, viewVars, hoverTimeoutRef, closeTimeoutRef,
                   timers, mounted, selectedPlant, staleReopen,
                   clickVars>>

\* the pointer once the popover is gone: what was over the popover is over the map
OffPopover == IF pointer = "popover" THEN "map" ELSE pointer

\* every live timer now predates an explicit close
MarkPreClose(ts) == { [t EXCEPT !.preClose = TRUE] : t \in ts }

\* Popover onOpenChange(false)
onOpenChange ==
    /\ mounted
    /\ PopoverOpen
    /\ tooltipPlantId' = Null
    /\ timers' = MarkPreClose(timers)
    /\ pointer' = OffPopover
    /\ UNCHANGED <<powerPlants, filterVars, viewVars, hoverTimeoutRef, closeTimeoutRef,
                   isOverPopoverRef, mounted, selectedPlant, staleReopen,
                   clickVars>>

\* PlantTooltipContent onViewDetails: setTooltipPlantId(null); handleMarkerClick(plant)
onViewDetails ==
    /\ mounted
    /\ PopoverOpen
    /\ tooltipPlantId' = Null
    /\ selectedPlant' = tooltipPlantId
    /\ \E i \in DOMAIN filteredPlants :
         /\ filteredPlants[i].id = tooltipPlantId
         /\ flyTo' = MarkerFlyTo(filteredPlants[i])
    /\ timers' = MarkPreClose(timers)
    /\ pointer' = OffPopover
    /\ UNCHANGED <<powerPlants, filterVars, viewVars, hoverTimeoutRef, closeTimeoutRef,
                   isOverPopoverRef, mounted, staleReopen, thrown, clicked>>

\* a live timer's delay elapses and its callback runs (a state update of an
\* unmounted component has no effect)
TimerFire(t) ==
    /\ t \in timers
    /\ timers' = timers \ {t}
    /\ tooltipPlantId' =
         IF ~mounted THEN tooltipPlantId
         ELSE IF t.kind = "show" THEN t.plantId
         ELSE IF ~isOverPopoverRef THEN Null
         ELSE tooltipPlantId
    /\ staleReopen' = (staleReopen \/ (mounted /\ t.kind = "show" /\ t.preClose))
    /\ pointer' = (IF tooltipPlantId' = Null THEN OffPopover ELSE pointer)
    /\ UNCHANGED <<powerPlants, filterVars, viewVars, hoverTimeoutRef, closeTimeoutRef,
                   isOverPopoverRef, mounted, selectedPlant,
                   clickVars>>

\* the cleanup of the mount effect
Unmount ==
    /\ mounted
    /\ mounted' = FALSE
    /\ timers' = clearTimeout(clearTimeout(timers, hoverTimeoutRef), closeTimeoutRef)
    /\ pointer' = pointer
    /\ UNCHANGED <<powerPlants, filterVars, viewVars, tooltipPlantId, hoverTimeoutRef,
                   closeTimeoutRef, isOverPopoverRef, selectedPlant, staleReopen,
                   clickVars>>

-----------------------------------------------------------------------------
(* Specifications *)

\* the filter panel and the map viewport
Next ==
    \/ \E values \in TypeInputs : handleTypeChange(values)
    \/ \E values \in StatusInputs : handleStatusChange(values)
    \/ \E value \in CapacityInputs : handleCapacityChange(value)
    \/ \E value \in EmissionsInputs : handleEmissionsChange(value)
    \/ \E value \in YearInputs : handleYearChange(value)
    \/ \E keys \in CountryInputs : handleCountryChange(keys)
    \/ resetFilters
    \/ \E vs \in ViewInputs : onMove(vs)
    \/ onLoad

Spec == Init /\ [][Next]_vars

\* the hover tooltip of the plant markers
TooltipNext ==
    \/ onLoad
    \/ \E plantId \in PlantIds : handlePinMouseEnter(plantId)
    \/ handlePinMouseLeave
    \/ handlePopoverMouseEnter
    \/ handlePopoverMouseLeave
    \/ onOpenChange
    \/ onViewDetails
    \/ \E t \in timers : TimerFire(t)
    \/ Unmount

TooltipSpec == Init /\ [][TooltipNext]_vars

\* the clustering of the active subset
ClusterNext ==
    \/ \E values \in TypeInputs : handleTypeChange(values)
    \/ \E values \in StatusInputs : handleStatusChange(values)
    \/ \E vs \in ViewInputs : onMove(vs)
    \/ onLoad

ClusterSpec == Init /\ [][ClusterNext]_vars

\* clicks on the markers of the map
ClickNext ==
    \/ \E values \in TypeInputs : handleTypeChange(values)
    \/ \E vs \in ViewInputs : onMove(vs)
    \/ onLoad
    \/ \E i \in DOMAIN powerPlants : handleMarkerClick(powerPlants[i])
    \/ \E marker \in ClusterMarkers :
         handleClusterClick(marker.id, marker.coordinates[1], marker.coordinates[2])

ClickSpec == Init /\ [][ClickNext]_vars

-----------------------------------------------------------------------------
(* Properties of the filter evaluation *)

\* the predicate of the specification, section 4.1
Accepts(p, f) ==
    /\ p.type \in Range(f.plantTypes)
    /\ p.status \in Range(f.statuses)
    /\ f.capacityRange[1] <= p.capacity /\ p.capacity <= f.capacityRange[2]
    /\ f.emissionsRange[1] <= p.emissions /\ p.emissions <= f.emissionsRange[2]
    /\ f.yearRange[1] <= p.constructionYear /\ p.constructionYear <= f.yearRange[2]
    /\ (f.countries = <<>> \/ p.country \in Range(f.countries))

\* C1: a record is in filteredPlants if and only if its type is in plantTypes,
\* its status is in statuses, capacity, emissions and constructionYear lie in
\* their ranges (bounds inclusive) and countries is empty or holds its country;
\* with plantTypes restricted to one value, filteredPlants holds exactly the
\* records of that type that pass the other predicates.
C1_FilterMembership ==
    /\ \A i \in DOMAIN powerPlants :
         (powerPlants[i] \in Range(filteredPlants)) <=> Accepts(powerPlants[i], filters)
    /\ Len(filters.plantTypes) = 1 =>
         Range(filteredPlants) =
            { p \in Range(powerPlants) :
                /\ p.type = filters.plantTypes[1]
                /\ Accepts(p, [filters EXCEPT !.plantTypes = plantTypes]) }

\* C1 witness: plantTypes restricted to wind with a narrowed capacity range; a
\* wind record on the lower capacity bound passes and other records are rejected
C1_Witness ==
    /\ filters.plantTypes = <<"wind">>
    /\ filters.capacityRange = <<200, 300>>
    /\ \E i \in DOMAIN filteredPlants : filteredPlants[i].capacity = 200
    /\ Len(filteredPlants) < Len(powerPlants)

\* C2: an empty plantTypes or statuses behaves as "accept all": the active
\* subset is the one the other predicates alone select.
C2_EmptySetAcceptsAll ==
    /\ filters.plantTypes = <<>> =>
         filteredPlants = FilterPlants(powerPlants, [filters EXCEPT !.plantTypes = plantTypes])
    /\ filters.statuses = <<>> =>
         filteredPlants = FilterPlants(powerPlants, [filters EXCEPT !.statuses = statuses])

\* C3: under the default filter state (all plant types, all statuses, the
\* data-derived ranges, no countries) filteredPlants is the whole record
\* collection in its original order.
C3_DefaultIsIdentity ==
    filters = getDefaultFilters(powerPlants) => filteredPlants = powerPlants

\* C3 witness: the default filter state is in force again after an edit
\* narrowed the active subset and resetFilters restored it (the index was
\* reloaded with the larger point set), over records with different values
C3_Witness ==
    /\ filters = getDefaultFilters(powerPlants)
    /\ bounds # Undefined
    /\ rebuilt
    /\ Len(filteredPlants) >= 2
    /\ filters.capacityRange[1] < filters.capacityRange[2]
    /\ filters.emissionsRange[1] < filters.emissionsRange[2]

\* the range lies in the data-derived domain and is ordered
InDomain(range, domain) ==
    /\ domain.min <= range[1]
    /\ range[1] <= range[2]
    /\ range[2] <= domain.max

\* C4: over a non-empty record collection, each numeric range of the filter
\* state satisfies globalMin <= range[0] <= range[1] <= globalMax.
C4_RangesWithinDomain ==
    powerPlants # <<>> =>
        /\ InDomain(filters.capacityRange, getDataRanges(powerPlants).capacity)
        /\ InDomain(filters.emissionsRange, getDataRanges(powerPlants).emissions)
        /\ InDomain(filters.yearRange, getDataRanges(powerPlants).year)

-----------------------------------------------------------------------------
(* Properties of the tooltip timers *)

\* C5: no show timer that was scheduled before an explicit close (Popover
\* onOpenChange(false), View Details) fires after it and sets tooltipPlantId
\* back to a plant id.
C5_NoStaleReopen == ~staleReopen

LiveTimers(kind) == { t \in timers : t.kind = kind }

\* C6: there is at most one live show timer and at most one live hide timer,
\* and each live timer is the one hoverTimeoutRef / closeTimeoutRef refers to.
C6_SingleOwnedTimers ==
    /\ Cardinality(LiveTimers("show")) <= 1
    /\ Cardinality(LiveTimers("hide")) <= 1
    /\ \A t \in LiveTimers("show") : t.id = hoverTimeoutRef
    /\ \A t \in LiveTimers("hide") : t.id = closeTimeoutRef

-----------------------------------------------------------------------------
(* Relational properties of the filter evaluation *)

\* the interval r2 is contained in the interval r1
RangeWithin(r2, r1) == r1[1] <= r2[1] /\ r2[2] <= r1[2]

\* the filter states that narrow f in exactly one of plantTypes, statuses and
\* the three ranges
NarrowedNonCountry(f) ==
    { [f EXCEPT !.plantTypes = v] :
        v \in { w \in TypeInputs : Range(w) \subseteq Range(f.plantTypes) } }
    \cup { [f EXCEPT !.statuses = v] :
        v \in { w \in StatusInputs : Range(w) \subseteq Range(f.statuses) } }
    \cup { [f EXCEPT !.capacityRange = v] :
        v \in { w \in CapacityInputs : RangeWithin(w, f.capacityRange) } }
    \cup { [f EXCEPT !.emissionsRange = v] :
        v \in { w \in EmissionsInputs : RangeWithin(w, f.emissionsRange) } }
    \cup { [f EXCEPT !.yearRange = v] :
        v \in { w \in YearInputs : RangeWithin(w, f.yearRange) } }

\* country lists the Select can report
CountryLists == { k.keys : k \in CountryInputs } \cup { getUniqueCountries(powerPlants) }

\* the filter states whose countries list is a subset of that of f
NarrowedCountrySubset(f) ==
    { [f EXCEPT !.countries = v] :
        v \in { w \in CountryLists : Range(w) \subseteq Range(f.countries) } }

\* the filter states whose countries list accepts a subset of the countries
\* that of f accepts (an empty list accepts every country)
NarrowedCountryAccepted(f) ==
    { [f EXCEPT !.countries = v] :
        v \in { w \in CountryLists :
                  \/ f.countries = <<>>
                  \/ (w # <<>> /\ Range(w) \subseteq Range(f.countries)) } }

MonotoneOver(narrowed) ==
    \A f2 \in narrowed :
        /\ Range(FilterPlants(powerPlants, f2)) \subseteq Range(filteredPlants)
        /\ Len(FilterPlants(powerPlants, f2)) <= Len(filteredPlants)

\* C7 as stated: for every filter state that differs from the current one in
\* one predicate whose accepted set is a subset of (or whose range is contained
\* in) the current one's, the active subset is a subset of the current active
\* subset and not larger.
C7_MonotoneSubsetOriginal ==
    MonotoneOver(NarrowedNonCountry(filters) \cup NarrowedCountrySubset(filters))

\* C7 amended: the same, where for countries the narrowing is of the accepted
\* countries: the second list is a non-empty subset of the first, or the first
\* list is empty (accepts every country).
C7_MonotoneAccepted ==
    MonotoneOver(NarrowedNonCountry(filters) \cup NarrowedCountryAccepted(filters))

\* C7 witness: a filter state restricted in plant type and country over which
\* a narrowing to the empty plantTypes and a narrowing of the capacity range
\* both shrink a non-empty active subset
C7_Witness ==
    /\ filters.plantTypes = <<"coal", "wind">>
    /\ filters.countries = <<"Germany">>
    /\ Len(filteredPlants) >= 2
    /\ \E f2 \in NarrowedNonCountry(filters) :
         /\ f2.plantTypes = <<>>
         /\ Len(FilterPlants(powerPlants, f2)) < Len(filteredPlants)
    /\ \E f2 \in NarrowedNonCountry(filters) :
         /\ f2.capacityRange # filters.capacityRange
         /\ Len(FilterPlants(powerPlants, f2)) \in 1..(Len(filteredPlants) - 1)

\* the position of the record with this id in the record collection
PositionOf(id) == CHOOSE i \in DOMAIN powerPlants : powerPlants[i].id = id

\* the active subset holds each passing record once, in input order, and no
\* other record
StableSelection ==
    /\ \A i \in DOMAIN powerPlants :
         Cardinality({ j \in DOMAIN filteredPlants : filteredPlants[j] = powerPlants[i] })
            = IF Accepts(powerPlants[i], filters) THEN 1 ELSE 0
    /\ \A j \in DOMAIN filteredPlants : filteredPlants[j] \in Range(powerPlants)
    /\ \A j, k \in DOMAIN filteredPlants :
         j < k => PositionOf(filteredPlants[j].id) < PositionOf(filteredPlants[k].id)

\* C8: the active subset is a subsequence of the record collection (each
\* passing record exactly once, in input order), and no step that evaluates
\* it changes the record collection.
C8_PureStable ==
    /\ []StableSelection
    /\ [][powerPlants' = powerPlants]_vars

\* C8 witness: two passing records with a rejected record between them in the
\* record collection
C8_Witness ==
    /\ Len(powerPlants) = 3
    /\ Len(filteredPlants) = 2
    /\ filteredPlants[1] = powerPlants[1]
    /\ filteredPlants[2] = powerPlants[3]

-----------------------------------------------------------------------------
(* Properties of the clustering input *)

\* C9: a step that changes the viewport (viewState or bounds) leaves the
\* filter state, the active subset, the points and the loaded index unchanged
\* and loads no new index; a step loads a new index only if it changes the
\* active subset (the clustering options never change).
C9_ViewportOnlyRequeries ==
    [][ /\ (viewState' # viewState \/ bounds' # bounds) =>
             /\ filters' = filters
             /\ filteredPlants' = filteredPlants
             /\ points' = points
             /\ indexPoints' = indexPoints
             /\ ~rebuilt'
        /\ rebuilt' => filteredPlants' # filteredPlants ]_vars

\* C9 witness: the map has moved to another zoom after a filter edit narrowed
\* the active subset, and the move loaded no index
C9_Witness ==
    /\ viewState.zoom = 4
    /\ bounds = getBounds(viewState)
    /\ Len(filteredPlants) \in 1..(Len(powerPlants) - 1)
    /\ ~rebuilt

\* C10: the points are the active subset of the current filter state, one
\* point per passing record in the same order with its id and coordinates;
\* the index is loaded with exactly these points; the plant count is the size
\* of that subset.
C10_PointsAreActiveSubset ==
    /\ filteredPlants = SelectSeq(powerPlants, LAMBDA p : Accepts(p, filters))
    /\ Len(points) = Len(filteredPlants)
    /\ \A i \in DOMAIN points :
         /\ points[i].plantId = filteredPlants[i].id
         /\ points[i].coordinates = <<filteredPlants[i].longitude, filteredPlants[i].latitude>>
    /\ indexPoints = Index(points)
    /\ plantCount = Len(indexPoints.points)

\* C10 witness: a filter edit replaced the active subset by another of the
\* same size and the index was reloaded
C10_Witness ==
    /\ filters.plantTypes = <<"wind">>
    /\ filters.statuses = <<"operating">>
    /\ rebuilt
    /\ bounds # Undefined
    /\ Len(filteredPlants) = 1
    /\ Len(powerPlants) = 3

-----------------------------------------------------------------------------
(* Properties of the marker clicks *)

\* the step is a call of handleClusterClick
ClusterClickStep == clicked' # clicked

\* the feature (id and coordinate) a click was made on
ClickedMarker(c) ==
    [cluster |-> TRUE, id |-> c.clusterId, coordinates |-> <<c.longitude, c.latitude>>]

\* the features of AggregatesOf without their point counts
MarkersOf(index) ==
    { [cluster |-> TRUE, id |-> a.id, coordinates |-> a.coordinates] : a \in AggregatesOf(index) }

\* C11: a cluster click that arrives while `supercluster` is absent issues no
\* fly-to, leaves the viewport (center and zoom) unchanged and raises no error.
C11_AbsentClickFailsSoft ==
    [][ (ClusterClickStep /\ supercluster = Absent) =>
            (flyTo' = flyTo /\ viewState' = viewState /\ thrown' = thrown) ]_vars

\* C11 witness: a cluster click has been made on a mounted view that has no
\* index yet, and there is no fly-to and no error.
C11_Witness ==
    /\ clicked # NoClick
    /\ supercluster = Absent
    /\ flyTo = NoFlyTo
    /\ ~thrown

\* C12: a cluster click on a marker of a structure that has since been rebuilt
\* (the loaded index no longer has this cluster) changes no fly-to target and
\* throws nothing.
C12_StaleClickNoOp ==
    [][ (/\ ClusterClickStep
         /\ supercluster # Absent
         /\ ClickedMarker(clicked') \notin MarkersOf(indexPoints)) =>
            (flyTo' = flyTo /\ ~thrown') ]_vars

\* C13: a cluster click on a cluster of the built structure flies to the
\* clicked cluster's coordinate at min(expansion zoom, 14); the target zoom is
\* never above 14.
C13_ClusterClickTarget ==
    [][ (/\ ClusterClickStep
         /\ supercluster # Absent
         /\ ClickedMarker(clicked') \in MarkersOf(supercluster)) =>
            LET expansion == getClusterExpansionZoom(supercluster, clicked'.clusterId) IN
            /\ expansion.ok
            /\ thrown' = thrown
            /\ flyTo'.center = <<clicked'.longitude, clicked'.latitude>>
            /\ flyTo'.zoom = Min(expansion.zoom, 14)
            /\ flyTo'.zoom <= 14 ]_vars

\* C13 witness: the last fly-to is that of a click on a cluster whose expansion
\* zoom is above 14 (its members share a coordinate), so the cap has acted.
C13_Witness ==
    /\ clicked # NoClick
    /\ supercluster # Absent
    /\ ClickedMarker(clicked) \in MarkersOf(supercluster)
    /\ getClusterExpansionZoom(supercluster, clicked.clusterId).zoom > 14
    /\ flyTo # NoFlyTo
    /\ flyTo.duration = 500
    /\ flyTo.zoom = 14
    /\ flyTo.center = <<clicked.longitude, clicked.latitude>>

\* the nodes an index emits at a whole zoom
NodesAt(index, zoom) == Range(load(index.points)[limitZoom(zoom)])

\* C14: for every aggregate cluster of the active subset, at the zoom the
\* cluster click flies to (expansion zoom capped at 14) the clustering of the
\* same subset has no aggregate of two or more records that holds all the
\* members of the clicked cluster, also when the members share a coordinate.
C14_ExpansionSplits ==
    \A z \in DOMAIN load(indexPoints.points) :
        \A node \in NodesAt(indexPoints, z) :
            node.numPoints > 1 =>
                LET target == Min(getClusterExpansionZoom(indexPoints, node.id).zoom, 14) IN
                \A other \in NodesAt(indexPoints, target) :
                    ~(other.numPoints >= 2 /\ node.members \subseteq other.members)

\* the step is a call of handleMarkerClick that changes something
MarkerClickStep ==
    /\ clicked' = clicked
    /\ flyTo' # flyTo \/ selectedPlant' # selectedPlant

\* C15: a marker click on a record flies to the record's (longitude, latitude)
\* at zoom 6, whatever the viewport, the filter state and the clusters are, and
\* makes the record the selected plant.
C15_MarkerClickTarget ==
    [][ MarkerClickStep =>
            \E i \in DOMAIN powerPlants :
                /\ selectedPlant' = powerPlants[i].id
                /\ flyTo'.center = <<powerPlants[i].longitude, powerPlants[i].latitude>>
                /\ flyTo'.zoom = 6 ]_vars

\* C15 witness: a record that is filtered out, with a viewport away from the
\* initial one, is the selected plant and the centre of the last fly-to.
C15_Witness ==
    /\ flyTo # NoFlyTo
    /\ flyTo.zoom = 6
    /\ viewState.zoom = 4
    /\ \E i \in DOMAIN powerPlants :
         /\ powerPlants[i].id = selectedPlant
         /\ powerPlants[i] \notin Range(filteredPlants)
         /\ flyTo.center = <<powerPlants[i].longitude, powerPlants[i].latitude>>

-----------------------------------------------------------------------------
(* Properties of the filter state *)

\* the names of the six filter fields
FilterFields ==
    {"plantTypes", "statuses", "capacityRange", "emissionsRange", "yearRange", "countries"}

\* the values that take every field from one of two filter states
Hybrids(f, g) ==
    { [plantTypes |-> a, statuses |-> b, capacityRange |-> c, emissionsRange |-> d,
       yearRange |-> e, countries |-> k] :
        a \in {f.plantTypes, g.plantTypes}, b \in {f.statuses, g.statuses},
        c \in {f.capacityRange, g.capacityRange},
        d \in {f.emissionsRange, g.emissionsRange},
        e \in {f.yearRange, g.yearRange}, k \in {f.countries, g.countries} }

\* the records of the collection a filter state accepts
AcceptedBy(f) == { p \in Range(powerPlants) : Accepts(p, f) }

\* C16: every evaluation of the active subset reads all six predicates from the
\* one filter state a single onFiltersChange call installed: the filter state
\* is replaced as a whole value with all six fields, and the active subset
\* after a step is that of the new value, never that of a value with some
\* fields from before the edit and some from after.
C16_AtomicSnapshot ==
    [][ /\ DOMAIN filters' = FilterFields
        /\ Range(filteredPlants') = AcceptedBy(filters')
        /\ filters' # filters =>
             \A h \in Hybrids(filters, filters') :
                AcceptedBy(h) # AcceptedBy(filters') => Range(filteredPlants') # AcceptedBy(h)
      ]_vars

\* C16 witness: after edits of two fields the active subset is that of the
\* installed value and differs from that of either value with one field still
\* at its default.
C16_Witness ==
    LET default == getDefaultFilters(powerPlants) IN
    /\ filters.plantTypes # default.plantTypes
    /\ filters.statuses # default.statuses
    /\ Range(filteredPlants) = AcceptedBy(filters)
    /\ filteredPlants # <<>>
    /\ AcceptedBy([filters EXCEPT !.plantTypes = default.plantTypes]) # AcceptedBy(filters)
    /\ AcceptedBy([filters EXCEPT !.statuses = default.statuses]) # AcceptedBy(filters)

-----------------------------------------------------------------------------
(* Properties of the clustering *)

\* the trees of the loaded index
Trees == load(indexPoints.points)

\* the ids of the records a node aggregates
MemberIds(node) == { indexPoints.points[m + 1].plantId : m \in node.members }

\* the ids of the active subset
ActiveIds == { filteredPlants[i].id : i \in DOMAIN filteredPlants }

\* the sum of the point counts of a sequence of nodes
RECURSIVE CountSum(_)
CountSum(nodes) ==
    IF nodes = <<>> THEN 0 ELSE Head(nodes).numPoints + CountSum(Tail(nodes))

\* C17: at every zoom the member-id sets of the emitted nodes partition the ids
\* of the active subset (no record lost, none in two nodes) and the point
\* counts sum to the size of the active subset.
C17_ClusterConservation ==
    \A zoom \in 0..(ClusterOptions.maxZoom + 2) :
        LET nodes == Trees[limitZoom(zoom)] IN
        /\ UNION { MemberIds(nodes[i]) : i \in DOMAIN nodes } = ActiveIds
        /\ \A i, j \in DOMAIN nodes :
             i # j => MemberIds(nodes[i]) \cap MemberIds(nodes[j]) = {}
        /\ \A i \in DOMAIN nodes : nodes[i].numPoints = Cardinality(MemberIds(nodes[i]))
        /\ CountSum(nodes) = Len(filteredPlants)

\* C17 witness: after a filter edit the active subset has three or more
\* records, and at some zoom an aggregate and a single record are emitted.
C17_Witness ==
    /\ filters # getDefaultFilters(powerPlants)
    /\ Len(filteredPlants) >= 3
    /\ \E zoom \in DOMAIN Trees :
         /\ \E i \in DOMAIN Trees[zoom] : Trees[zoom][i].numPoints > 1
         /\ \E i \in DOMAIN Trees[zoom] : Trees[zoom][i].numPoints = 1

\* the input points linked to those of S by chains of steps within the radius
RECURSIVE Component(_, _, _)
Component(leaves, zoom, S) ==
    LET T == S \cup { j \in DOMAIN leaves :
                        \E i \in S : Within(leaves[i], leaves[j], Radius(zoom)) }
    IN IF T = S THEN S ELSE Component(leaves, zoom, T)

\* C18: at every zoom at or below maxZoom two records are in the same emitted
\* node if and only if a chain of records of the active subset links them in
\* which consecutive records are at most the radius apart at that zoom.
C18_SingleLinkage ==
    LET leaves == Trees[ClusterOptions.maxZoom + 1] IN
    \A zoom \in 0..ClusterOptions.maxZoom :
        \A a, b \in DOMAIN leaves :
            a # b =>
                ((\E i \in DOMAIN Trees[zoom] : {a - 1, b - 1} \subseteq Trees[zoom][i].members)
                 <=> b \in Component(leaves, zoom, {a}))

\* C19: for every zoom z the clustering at z + 1 has at least as many nodes as
\* that at z, and every node at z + 1 is contained in exactly one node at z.
C19_ZoomMonotone ==
    \A z \in 0..(ClusterOptions.maxZoom + 1) :
        LET fine == Trees[limitZoom(z + 1)]
            coarse == Trees[limitZoom(z)]
        IN /\ Len(fine) >= Len(coarse)
           /\ \A i \in DOMAIN fine :
                Cardinality({ j \in DOMAIN coarse :
                                fine[i].members \subseteq coarse[j].members }) = 1

\* C19 witness: after a filter edit, at some zoom z an aggregate of z + 1 is
\* part of a larger aggregate of z and the clustering at z has fewer nodes.
C19_Witness ==
    /\ filters # getDefaultFilters(powerPlants)
    /\ \E z \in 0..ClusterOptions.maxZoom :
        /\ Len(Trees[limitZoom(z + 1)]) > Len(Trees[limitZoom(z)])
        /\ \E i \in DOMAIN Trees[limitZoom(z + 1)] :
             /\ Trees[limitZoom(z + 1)][i].numPoints > 1
             /\ \E j \in DOMAIN Trees[limitZoom(z)] :
                  /\ Trees[limitZoom(z + 1)][i].members \subseteq Trees[limitZoom(z)][j].members
                  /\ Trees[limitZoom(z)][j].numPoints > Trees[limitZoom(z + 1)][i].numPoints

\* the view zooms of the clustering properties, in tenths of a level
ZoomTenths == 0..(10 * (ClusterOptions.maxZoom + 2))

\* the records of the active subset are all within the radius of each other
AllWithin(zoom) ==
    LET leaves == Trees[ClusterOptions.maxZoom + 1] IN
    \A a, b \in DOMAIN leaves : Within(leaves[a], leaves[b], Radius(zoom))

\* the active subset is emitted as one aggregate of all its records
OneAggregate(nodes) ==
    Len(nodes) = 1 /\ nodes[1].numPoints = Len(filteredPlants) /\ nodes[1].numPoints > 1

\* C20 as stated: at every view zoom greater than maxZoom each record is
\* emitted as a leaf of its own, also records with one coordinate; at a view
\* zoom at or below maxZoom an active subset of two or more records that are
\* all within the radius is emitted as one aggregate with all of them.
C20_LeavesAboveMaxZoom ==
    \A zoom \in ZoomTenths :
        LET nodes == Trees[limitZoom(zoomInt(zoom))] IN
        /\ zoom > 10 * ClusterOptions.maxZoom =>
             \A i \in DOMAIN nodes : nodes[i].numPoints = 1
        /\ (/\ zoom <= 10 * ClusterOptions.maxZoom
            /\ Len(filteredPlants) >= 2
            /\ AllWithin(limitZoom(zoomInt(zoom)))) => OneAggregate(nodes)

\* the whole level nearest to a view zoom given in tenths (halves go up)
NearestLevel(zoom) ==
    CHOOSE level \in 0..(ClusterOptions.maxZoom + 3) :
        10 * level - 5 <= zoom /\ zoom < 10 * level + 5

\* C20 amended: the zoom that counts is the whole level nearest to the view
\* zoom.  Where that level is greater than maxZoom (a view zoom of 14.5 or
\* more) each record is emitted as a leaf of its own, also records with one
\* coordinate; where it is at or below maxZoom an active subset of two or more
\* records that are all within the radius at that level is emitted as one
\* aggregate with all of them.
C20_LeavesAboveRoundedMaxZoom ==
    \A zoom \in ZoomTenths :
        LET nodes == Trees[limitZoom(zoomInt(zoom))] IN
        /\ zoom >= 10 * ClusterOptions.maxZoom + 5 =>
             \A i \in DOMAIN nodes : nodes[i].numPoints = 1
        /\ (/\ zoom < 10 * ClusterOptions.maxZoom + 5
            /\ Len(filteredPlants) >= 2
            /\ AllWithin(NearestLevel(zoom))) => OneAggregate(nodes)

\* C20 witness: after a filter edit the active subset is two records with one
\* coordinate: one aggregate at the view zoom 14.4, two leaves at 14.5.
C20_Witness ==
    /\ filters # getDefaultFilters(powerPlants)
    /\ Len(filteredPlants) = 2
    /\ points[1].coordinates = points[2].coordinates
    /\ OneAggregate(Trees[limitZoom(zoomInt(144))])
    /\ Len(Trees[limitZoom(zoomInt(145))]) = 2

-----------------------------------------------------------------------------
(* Properties of the viewport query *)

\* view states of the viewport query: those of ViewInputs and two whose box
\* leaves records of the pool outside
QueryViews ==
    ViewInputs \cup { [longitude |-> 30, latitude |-> 45, zoom |-> 4],
                      [longitude |-> 33, latitude |-> 45, zoom |-> 4] }

\* the viewport query over the active subsets the type filter gives
QueryNext ==
    \/ \E values \in TypeInputs : handleTypeChange(values)
    \/ \E vs \in QueryViews : onMove(vs)
    \/ onLoad

QuerySpec == Init /\ [][QueryNext]_vars

\* the nodes of the view's zoom level
LevelNodes == Trees[limitZoom(zoomInt(10 * viewState.zoom))]

\* the node's position is inside the box widened by m degrees on every side
InBox(node, box, m) ==
    /\ lngX(box[1] - m) <= node.x /\ node.x <= lngX(box[3] + m)
    /\ latY(box[4] + m) <= node.y /\ node.y <= latY(box[2] - m)

\* the React key of the marker of a node
NodeKey(node) ==
    IF node.numPoints > 1 THEN <<"cluster", node.id>>
    ELSE <<"plant", indexPoints.points[node.id + 1].plantId>>

\* the React key of the marker of a feature of the render list
MarkerKey(feature) ==
    IF feature.cluster THEN <<"cluster", feature.id>> ELSE <<"plant", feature.plantId>>

\* the render list is exactly the nodes of the view's zoom level inside the
\* bounding box widened by m degrees, and its marker keys are pairwise distinct
RenderListIs(m) ==
    bounds # Undefined =>
        /\ { MarkerKey(clusters[i]) : i \in DOMAIN clusters }
             = { NodeKey(LevelNodes[j]) :
                   j \in { k \in DOMAIN LevelNodes : InBox(LevelNodes[k], bounds, m) } }
        /\ \A i, j \in DOMAIN clusters :
             MarkerKey(clusters[i]) = MarkerKey(clusters[j]) => i = j

-----------------------------------------------------------------------------
(* Properties of the empty active subset *)

\* the filter state rejects every record of the collection
RejectsAll(f) == \A i \in DOMAIN powerPlants : ~PlantPasses(powerPlants[i], f)

\* the state after a step that leaves no record accepted: nothing is active,
\* nothing is indexed, nothing is rendered and no handler has thrown
EmptyStateValid ==
    /\ filteredPlants' = <<>>
    /\ points' = <<>>
    /\ indexPoints'.points = <<>>
    /\ clustersAfter = <<>>
    /\ ~thrown'

\* C22 as stated: when the filter state rejects every record the active
\* subset, the clusterer input and the render list are empty, no operation
\* fails, and no render evaluates the cluster size with points.length = 0.
C22_EmptySubsetNoDivision ==
    [][RejectsAll(filters') => (EmptyStateValid /\ ~SizeOverNoPoints)]_vars

\* C22 amended: when the filter state rejects every record the active subset,
\* the clusterer input and the render list after the re-query are empty and
\* no operation fails; a render that evaluates the cluster size, also the one
\* before the re-query that divides by points.length = 0, gives a size of 24
\* to 48 pixels.
C22_EmptySubsetValid ==
    [][RejectsAll(filters') =>
         (/\ EmptyStateValid
          /\ \A size \in StaleRenderSizes \cup FreshRenderSizes :
               24 <= size /\ size <= 48)]_vars

\* C22 witness: with the map loaded, a filter edit has just emptied the active
\* subset of a collection of two or more records.
C22_Witness ==
    /\ bounds # Undefined
    /\ Len(powerPlants) >= 2
    /\ RejectsAll(filters)
    /\ rebuilt
    /\ points = <<>>
    /\ clusters = <<>>

-----------------------------------------------------------------------------
(* Records with a malformed coordinate *)

\* NaN as a coordinate (no coordinate of a well-formed record has this value)
NaN == 0 - 2000000

\* a record whose latitude is NaN
MalformedPlant ==
    [id |-> "p5", type |-> "wind", status |-> "operating", capacity |-> 200,
     emissions |-> 0, constructionYear |-> 2000, country |-> "Spain",
     longitude |-> 8, latitude |-> NaN]

\* the record collections that end with the malformed record
MalformedCollections ==
    { c \o <<MalformedPlant>> : c \in { d \in PlantCollections : Len(d) < MaxPlants } }

\* MapView after mount over a collection with a malformed record
MalformedInit ==
    /\ powerPlants \in MalformedCollections
    /\ filters = getDefaultFilters(powerPlants)
    /\ filteredPlants = FilterPlants(powerPlants, filters)
    /\ points = PointsOf(filteredPlants)
    /\ indexPoints = Index(points)
    /\ supercluster = Absent
    /\ rebuilt = TRUE
    /\ viewState = [longitude |-> 10, latitude |-> 45, zoom |-> 3]
    /\ bounds = Undefined
    /\ tooltipPlantId = Null
    /\ hoverTimeoutRef = NoTimer
    /\ closeTimeoutRef = NoTimer
    /\ isOverPopoverRef = FALSE
    /\ timers = {}
    /\ mounted = TRUE
    /\ selectedPlant = Null
    /\ staleReopen = FALSE
    /\ flyTo = NoFlyTo
    /\ thrown = FALSE
    /\ clicked = NoClick
    /\ pointer = "map"

MalformedSpec == MalformedInit /\ [][ClusterNext]_vars

\* C23: the points handed to the clusterer have a longitude and a latitude
\* that are numbers; a record whose coordinate is missing or NaN is never
\* among them.
C23_ValidPointsOnly ==
    \A i \in DOMAIN indexPoints.points :
        /\ indexPoints.points[i].coordinates[1] # NaN
        /\ indexPoints.points[i].coordinates[2] # NaN

-----------------------------------------------------------------------------
(* Order of the clustering input *)

\* the orders in which the points pts can be handed to the clusterer
InputOrders(pts) ==
    { [i \in DOMAIN pts |-> pts[f[i]]] :
        f \in { g \in [DOMAIN pts -> DOMAIN pts] :
                  \A i, j \in DOMAIN pts : g[i] = g[j] => i = j } }

\* the partition of the record ids the clusterer makes of pts at every zoom
PartitionOf(pts) ==
    LET trees == load(pts) IN
    [z \in DOMAIN trees |->
        { { pts[id + 1].plantId : id \in trees[z][k].members } : k \in DOMAIN trees[z] }]

\* C24: which records share a node does not depend on the order of the input:
\* every order of the active subset gives, at every zoom, the partition of
\* record ids that the order of the data gives.
C24_OrderIndependent ==
    \A perm \in InputOrders(indexPoints.points) :
        PartitionOf(perm) = PartitionOf(indexPoints.points)

-----------------------------------------------------------------------------
(* Properties of the FilterPanel handlers *)

\* the filter panel alone
PanelNext ==
    \/ \E values \in TypeInputs : handleTypeChange(values)
    \/ \E values \in StatusInputs : handleStatusChange(values)
    \/ \E value \in CapacityInputs \cup ScalarInputs : handleCapacityChange(value)
    \/ \E value \in EmissionsInputs \cup ScalarInputs : handleEmissionsChange(value)
    \/ \E value \in YearInputs \cup ScalarInputs : handleYearChange(value)
    \/ \E keys \in CountryInputs : handleCountryChange(keys)
    \/ resetFilters

PanelSpec == Init /\ [][PanelNext]_vars

\* C25: the filter state starts as the default derived from the data, and a
\* resetFilters step from any state installs a filter state equal to that
\* default, after which the active subset is the whole collection and
\* activeFilterCount is 0.
C25_ResetRestoresDefault ==
    /\ filters = getDefaultFilters(powerPlants)
    /\ [][resetFilters =>
            /\ filters' = getDefaultFilters(powerPlants)
            /\ filteredPlants' = powerPlants
            /\ activeFilterCount(filters') = 0]_vars

\* C25 witness: a reset has installed the default after edits: the filter
\* state is the default with the whole collection active, while the index
\* was rebuilt by the step (the state before had another active subset).
C25_Witness ==
    /\ filters = getDefaultFilters(powerPlants)
    /\ filteredPlants = powerPlants
    /\ activeFilterCount(filters) = 0
    /\ Len(powerPlants) = MaxPlants
    /\ rebuilt
    /\ supercluster # Absent

\* the fields of the new filter state other than `field` are those of the
\* filter state the handler was given
OnlyChanges(field) == \A k \in FilterFields \ {field} : filters'[k] = filters[k]

\* C26: a step of handleTypeChange changes only plantTypes, of
\* handleStatusChange only statuses, of handleCapacityChange only
\* capacityRange, of handleEmissionsChange only emissionsRange, of
\* handleYearChange only yearRange, of handleCountryChange only countries;
\* a range handler called with a value that is not an array leaves the filter
\* state as it is.
C26_HandlerFrame ==
    [][/\ (\E values \in TypeInputs : handleTypeChange(values)) => OnlyChanges("plantTypes")
       /\ (\E values \in StatusInputs : handleStatusChange(values)) => OnlyChanges("statuses")
       /\ (\E value \in CapacityInputs : handleCapacityChange(value))
            => OnlyChanges("capacityRange")
       /\ (\E value \in EmissionsInputs : handleEmissionsChange(value))
            => OnlyChanges("emissionsRange")
       /\ (\E value \in YearInputs : handleYearChange(value)) => OnlyChanges("yearRange")
       /\ (\E keys \in CountryInputs : handleCountryChange(keys)) => OnlyChanges("countries")
       /\ (\E value \in ScalarInputs :
              \/ handleCapacityChange(value)
              \/ handleEmissionsChange(value)
              \/ handleYearChange(value)) => filters' = filters]_vars

\* C26 witness: after edits by three handlers each field holds the value its
\* own handler gave it.
C26_Witness ==
    /\ filters.plantTypes = <<"wind">>
    /\ filters.capacityRange = <<200, 300>>
    /\ filters.countries = <<"Germany">>
    /\ filters.statuses = statuses

-----------------------------------------------------------------------------
(* Two handler calls on one rendered FilterPanel *)

\* the filter state after the queued setFilters calls of one event have been
\* applied in order: each call passes a value, so the last value stands
LastQueued(queue) == queue[Len(queue)]

\* handleTypeChange(values), then handleStatusChange(statusValues), both of
\* the same render (their closures hold the same `filters`), then the render
handleTypeThenStatus(values, statusValues) ==
    /\ mounted
    /\ setFilters(LastQueued(<<[filters EXCEPT !.plantTypes = values],
                               [filters EXCEPT !.statuses = statusValues]>>))
    /\ UNCHANGED <<powerPlants, viewVars, tooltipVars, mounted, selectedPlant, clickVars>>

\* handleStatusChange(statusValues), then handleTypeChange(values), both of
\* the same render, then the render
handleStatusThenType(statusValues, values) ==
    /\ mounted
    /\ setFilters(LastQueued(<<[filters EXCEPT !.statuses = statusValues],
                               [filters EXCEPT !.plantTypes = values]>>))
    /\ UNCHANGED <<powerPlants, viewVars, tooltipVars, mounted, selectedPlant, clickVars>>

\* pairs of edits made on one rendered panel
BatchNext ==
    \/ \E values \in TypeInputs, statusValues \in StatusInputs :
         handleTypeThenStatus(values, statusValues)
    \/ \E statusValues \in StatusInputs, values \in TypeInputs :
         handleStatusThenType(statusValues, values)

BatchSpec == Init /\ [][BatchNext]_vars

\* C27: when a type edit and a status edit are made on the same rendered
\* panel, in either order, the filter state after both calls has the plant
\* types of the one and the statuses of the other.
C27_NoLostEdit ==
    [][\A values \in TypeInputs, statusValues \in StatusInputs :
          (\/ handleTypeThenStatus(values, statusValues)
           \/ handleStatusThenType(statusValues, values))
          => (filters'.plantTypes = values /\ filters'.statuses = statusValues)]_vars

-----------------------------------------------------------------------------
(* The hover tooltip under a pointer that moves over the map *)

\* the pointer events in the order a pointer can produce them: a pin is
\* entered from the map and left to the map, the popover likewise, and the
\* View Details button is pressed with the pointer over the popover
HoverNext ==
    \/ onLoad
    \/ \E plantId \in PlantIds : pointer = "map" /\ handlePinMouseEnter(plantId)
    \/ pointer = "pin" /\ handlePinMouseLeave
    \/ pointer = "map" /\ handlePopoverMouseEnter
    \/ pointer = "popover" /\ handlePopoverMouseLeave
    \/ onOpenChange
    \/ pointer = "popover" /\ onViewDetails
    \/ \E t \in timers : TimerFire(t)

\* a scheduled timer fires once its delay has elapsed: the host never holds a
\* due timer back for ever
HoverSpec ==
    Init /\ [][HoverNext]_vars /\ WF_vars(\E t \in timers : TimerFire(t))

\* C28: whenever the tooltip is open and the pointer has left the pin and is
\* not over the popover, the tooltip closes eventually (or the pointer comes
\* back to a pin or the popover first).
C28_EventuallyCloses ==
    (tooltipPlantId # Null /\ pointer = "map") ~> (tooltipPlantId = Null \/ pointer # "map")

-----------------------------------------------------------------------------
(* How the tooltip opens *)

\* C29: the only live show timer is the one the most recent pin-enter started
\* (a pin-leave or another pin-enter cancels the one before); the tooltip
\* opens for a plant only by that timer firing; and a hide timer that fires
\* with the pointer over the popover does not close the tooltip.
C29_OpensBySettledHover ==
    /\ [](\A t \in timers : t.kind = "show" => t.id = hoverTimeoutRef)
    /\ [][/\ (tooltipPlantId' # Null /\ tooltipPlantId' # tooltipPlantId) =>
               (\E t \in timers :
                  /\ TimerFire(t)
                  /\ t.kind = "show"
                  /\ t.plantId = tooltipPlantId'
                  /\ t.id = hoverTimeoutRef)
          /\ (pointer = "popover" /\ \E h \in timers : h.kind = "hide" /\ TimerFire(h)) =>
               tooltipPlantId' = tooltipPlantId]_vars

\* C29 witness: the tooltip is open with the pointer over the popover while a
\* hide timer of an earlier pin-leave is still to fire.
C29_Witness ==
    /\ tooltipPlantId # Null
    /\ pointer = "popover"
    /\ \E t \in timers : t.kind = "hide"

-----------------------------------------------------------------------------
(* Selecting all countries *)

\* the filter state handleCountryChange("all") gives from f
AllCountries(f) == [f EXCEPT !.countries = getUniqueCountries(powerPlants)]

\* f without a country restriction
NoCountries(f) == [f EXCEPT !.countries = <<>>]

\* C30 as stated: whatever the other five predicates are, the filter state
\* with every country of the data selected has the active subset of the same
\* state with no country selected, and activeFilterCount counts it as one
\* active filter more.
C30_AllCountriesIsNone ==
    /\ FilterPlants(powerPlants, AllCountries(filters))
         = FilterPlants(powerPlants, NoCountries(filters))
    /\ activeFilterCount(AllCountries(filters)) = activeFilterCount(NoCountries(filters)) + 1

\* C30 amended: whatever the other five predicates are, the filter state with
\* every country of the data selected has the active subset of the same state
\* with no country selected; activeFilterCount counts it as one active filter
\* more when the data has a record, and alike when the data has none (the
\* selection is then empty).
C30_AllCountriesIsNoneOfData ==
    /\ FilterPlants(powerPlants, AllCountries(filters))
         = FilterPlants(powerPlants, NoCountries(filters))
    /\ activeFilterCount(AllCountries(filters)) =
         activeFilterCount(NoCountries(filters)) + (IF powerPlants = <<>> THEN 0 ELSE 1)

\* C30 witness: handleCountryChange("all") has acted on a filter state whose
\* type predicate is narrowed: every country is selected, the counter counts
\* two active filters and the active subset is that of the type predicate.
C30_Witness ==
    /\ Len(getUniqueCountries(powerPlants)) >= 2
    /\ filters.countries = getUniqueCountries(powerPlants)
    /\ filters.plantTypes = <<"wind">>
    /\ activeFilterCount(filters) = 2
    /\ filteredPlants = FilterPlants(powerPlants, NoCountries(filters))
    /\ filteredPlants # <<>>

====
